---- MODULE Spec2Model ----
(***************************************************************************)
(* The buffer pool manager of BusTub (buffer_pool_manager.cpp): a fixed    *)
(* array of frames, a page table, a free list, an LRU-K replacer and one   *)
(* latch.  Every public operation is one action; the operations are        *)
(* operators on a record of the manager's fields so that the nested calls  *)
(* of the code (FetchPage -> NewPage -> FlushPage, FlushAllPages ->        *)
(* FlushPage) are applied exactly as the code applies them.                *)
(***************************************************************************)
EXTENDS Integers, Sequences, FiniteSets, TLC

\* ---- bounds of the model ----
PoolSize == 2
MaxPageId == 3
MaxPin == 2
MaxData == 1
NumThreads == 2
MaxLatchCount == 1

\* ---- program constants ----
INVALID_PAGE_ID == -1
nullptr == -1
K == 2

Frames == 0 .. (PoolSize - 1)
PageIds == 0 .. (MaxPageId - 1)
Data == 0 .. MaxData
Threads == 1 .. NumThreads
NoThread == 0

VARIABLES
  pages_,         \* frame -> [page_id, pin_count, is_dirty, data]
  page_table_,    \* page id -> frame (a function on the resident ids)
  free_list_,     \* sequence of frames
  next_page_id_,  \* the allocation counter
  replacer_,      \* [evictable, history, current_timestamp]
  disk,           \* page id -> data, the disk manager's blocks
  latch_,         \* [owner, count]
  relock,         \* what locking a std::mutex its owner holds does in this build
  pc,             \* thread -> where the thread is: "idle", "hung", or inside NewPage
  new_page_id     \* thread -> the local new_page_id of its NewPage call

vars == <<pages_, page_table_, free_list_, next_page_id_, replacer_, disk,
          latch_, relock, pc, new_page_id>>

\* The manager's fields as one record, the value the operations transform.
Manager ==
  [pages |-> pages_, page_table |-> page_table_, free_list |-> free_list_,
   next_page_id |-> next_page_id_, replacer |-> replacer_, disk |-> disk,
   latch |-> latch_, hung |-> FALSE]

\* A frame as the Page constructor / ResetMemory leaves it.
FreshPage == [page_id |-> INVALID_PAGE_ID, pin_count |-> 0, is_dirty |-> FALSE, data |-> 0]

\* ---- the latch (std::mutex) ----
\* lock(): free -> taken.  Locking a mutex the calling thread already owns is
\* undefined behaviour: the build either deadlocks (pthread default mutex) or
\* counts the acquisition (a mutex implemented over a recursive primitive).
Lock(s, t) ==
  IF s.hung THEN s
  ELSE IF s.latch.owner = NoThread THEN [s EXCEPT !.latch = [owner |-> t, count |-> 1]]
  ELSE IF relock = "deadlock" THEN [s EXCEPT !.hung = TRUE]
  ELSE [s EXCEPT !.latch.count = @ + 1]

Unlock(s) ==
  IF s.latch.count <= 1 THEN [s EXCEPT !.latch = [owner |-> NoThread, count |-> 0]]
  ELSE [s EXCEPT !.latch.count = @ - 1]

\* ---- the replacer (LRU-K) ----
\* SetEvictable(frame, flag)
SetEvictable(r, f, flag) ==
  [r EXCEPT !.evictable = IF flag THEN @ \cup {f} ELSE @ \ {f}]

\* Remove(frame): drop the frame from tracking and from the eligible set.
Remove(r, f) ==
  [r EXCEPT !.evictable = @ \ {f}, !.history[f] = <<>>]

\* RecordAccess(frame): append the current timestamp, keep the K most recent.
RecordAccess(r, f) ==
  LET h == Append(r.history[f], r.current_timestamp)
  IN [r EXCEPT !.history[f] = IF Len(h) > K THEN Tail(h) ELSE h,
               !.current_timestamp = @ + 1]

\* f is at least as good a victim as g: larger backward K-distance, i.e. an
\* older K-th most recent access (fewer than K accesses: infinite), ties broken
\* by the earliest recorded access; frames with no recorded access tie.
Earliest(r, f) == IF r.history[f] = <<>> THEN -1 ELSE r.history[f][1]
HasK(r, f) == Len(r.history[f]) >= K
Beats(r, f, g) ==
  IF HasK(r, f) # HasK(r, g) THEN ~HasK(r, f)
  ELSE Earliest(r, f) <= Earliest(r, g)

\* Evict(): the frames Evict may return; {nullptr} when none is evictable.
EvictChoices(r) ==
  IF r.evictable = {} THEN {nullptr}
  ELSE {f \in r.evictable : \A g \in r.evictable : Beats(r, f, g)}

\* the replacer after Evict returned victim
Evicted(r, victim) == Remove(r, victim)

\* ---- the disk manager ----
\* ReadPage(page_id, data): the block's bytes; a block never written reads as zeros.
ReadPage(d, page_id) == IF page_id \in DOMAIN d THEN d[page_id] ELSE 0

\* ---- BufferPoolManager ----
\* page_table_[page_id] = frame
Put(pt, page_id, frame) ==
  [p \in (DOMAIN pt) \cup {page_id} |-> IF p = page_id THEN frame ELSE pt[p]]

\* FlushPage(page_id), called by thread t
FlushPage(s, t, page_id) ==
  LET s1 == Lock(s, t) IN
  IF s1.hung THEN [s |-> s1, ok |-> FALSE]
  ELSE IF page_id \notin DOMAIN s1.page_table THEN [s |-> Unlock(s1), ok |-> FALSE]
  ELSE LET target_frame == s1.page_table[page_id] IN
    IF s1.pages[target_frame].page_id = INVALID_PAGE_ID
    THEN [s |-> Unlock(s1), ok |-> FALSE]
    ELSE [s |-> Unlock([s1 EXCEPT !.disk[page_id] = s1.pages[target_frame].data,
                                  !.pages[target_frame].is_dirty = FALSE]),
          ok |-> TRUE]

\* BindNewPage that does not advance next_page_id_.
BindNewPage_NoAllocate(s, free_frame) ==
  LET id == s.next_page_id
      s1 == [s EXCEPT
               !.pages[free_frame].page_id = id,
               !.pages[free_frame].pin_count = 1,
               !.page_table = Put(@, id, free_frame),
               !.replacer = SetEvictable(@, free_frame, FALSE)]
  IN [s |-> Unlock(s1), frame |-> free_frame, id |-> id]

\* NewPage lines 71-83: allocate the id, bind it, pin, unlock, return.
BindNewPage(s, free_frame) ==
  LET id == s.next_page_id
      s1 == [s EXCEPT
               !.next_page_id = @ + 1,
               !.pages[free_frame].page_id = id,
               !.pages[free_frame].pin_count = 1,
               !.page_table = Put(@, id, free_frame),
               !.replacer = SetEvictable(@, free_frame, FALSE)]
  IN [s |-> Unlock(s1), frame |-> free_frame, id |-> id]

\* NewPage lines 63-68: reset the victim's memory and metadata.
ResetVictim(s, free_frame) ==
  [s EXCEPT !.pages[free_frame] = FreshPage]

\* NewPage(&page_id), called by thread t; victim is what Evict returns if asked.
NewPage(s, t, victim) ==
  LET s1 == Lock(s, t) IN
  IF s1.hung THEN [s |-> s1, frame |-> nullptr, id |-> INVALID_PAGE_ID]
  ELSE IF s1.free_list # <<>>
  THEN BindNewPage([s1 EXCEPT !.free_list = Tail(@)], Head(s1.free_list))
  ELSE IF victim = nullptr
  THEN [s |-> Unlock(s1), frame |-> nullptr, id |-> INVALID_PAGE_ID]
  ELSE LET s2 == [s1 EXCEPT !.replacer = Evicted(@, victim)] IN
    IF s2.pages[victim].is_dirty
    THEN LET fl == FlushPage(s2, t, s2.pages[victim].page_id) IN
      IF fl.s.hung THEN [s |-> fl.s, frame |-> nullptr, id |-> INVALID_PAGE_ID]
      ELSE IF ~fl.ok THEN [s |-> Unlock(fl.s), frame |-> nullptr, id |-> INVALID_PAGE_ID]
      ELSE BindNewPage(ResetVictim(fl.s, victim), victim)
    ELSE BindNewPage(ResetVictim(s2, victim), victim)

\* FetchPage(page_id), called by thread t
FetchPage(s, t, page_id, victim) ==
  LET s1 == Lock(s, t) IN
  IF s1.hung THEN [s |-> s1, frame |-> nullptr, id |-> page_id]
  ELSE IF page_id \in DOMAIN s1.page_table
  THEN LET target_frame == s1.page_table[page_id] IN
    [s |-> Unlock([s1 EXCEPT !.pages[target_frame].pin_count = @ + 1]),
     frame |-> target_frame, id |-> page_id]
  ELSE LET r == NewPage(s1, t, victim) IN
    IF r.s.hung THEN [s |-> r.s, frame |-> nullptr, id |-> page_id]
    ELSE IF r.frame = nullptr THEN [s |-> r.s, frame |-> nullptr, id |-> page_id]
    ELSE [s |-> Unlock([r.s EXCEPT !.pages[r.frame].data = ReadPage(r.s.disk, r.id)]),
          frame |-> r.frame, id |-> r.id]

\* UnpinPage that marks the frame evictable whatever pin_count remains.
UnpinPage_AlwaysEvictable(s, t, page_id, is_dirty) ==
  LET s1 == Lock(s, t) IN
  IF s1.hung THEN [s |-> s1, ok |-> FALSE]
  ELSE IF page_id \notin DOMAIN s1.page_table THEN [s |-> Unlock(s1), ok |-> FALSE]
  ELSE LET unpin_frame == s1.page_table[page_id] IN
    IF s1.pages[unpin_frame].pin_count <= 0 THEN [s |-> Unlock(s1), ok |-> FALSE]
    ELSE LET s2 == [s1 EXCEPT !.pages[unpin_frame].pin_count = @ - 1]
             s3 == [s2 EXCEPT !.replacer = SetEvictable(@, unpin_frame, TRUE)]
             s4 == IF is_dirty THEN [s3 EXCEPT !.pages[unpin_frame].is_dirty = TRUE] ELSE s3
         IN [s |-> Unlock(s4), ok |-> TRUE]

\* UnpinPage(page_id, is_dirty), called by thread t
UnpinPage(s, t, page_id, is_dirty) ==
  LET s1 == Lock(s, t) IN
  IF s1.hung THEN [s |-> s1, ok |-> FALSE]
  ELSE IF page_id \notin DOMAIN s1.page_table THEN [s |-> Unlock(s1), ok |-> FALSE]
  ELSE LET unpin_frame == s1.page_table[page_id] IN
    IF s1.pages[unpin_frame].pin_count <= 0 THEN [s |-> Unlock(s1), ok |-> FALSE]
    ELSE LET s2 == [s1 EXCEPT !.pages[unpin_frame].pin_count = @ - 1]
             s3 == IF s2.pages[unpin_frame].pin_count = 0
                   THEN [s2 EXCEPT !.replacer = SetEvictable(@, unpin_frame, TRUE)]
                   ELSE s2
             s4 == IF is_dirty THEN [s3 EXCEPT !.pages[unpin_frame].is_dirty = TRUE] ELSE s3
         IN [s |-> Unlock(s4), ok |-> TRUE]

\* the loop of FlushAllPages from frame i on
RECURSIVE FlushFrom(_, _, _)
FlushFrom(s, t, i) ==
  IF i >= PoolSize \/ s.hung THEN s
  ELSE FlushFrom(FlushPage(s, t, s.pages[i].page_id).s, t, i + 1)

\* FlushAllPages(), called by thread t
FlushAllPages(s, t) ==
  LET s1 == Lock(s, t) IN
  IF s1.hung THEN s1
  ELSE LET s2 == FlushFrom(s1, t, 0) IN
    IF s2.hung THEN s2 ELSE Unlock(s2)

\* The reset and release of DeletePage without page_table_.erase.
FreeFrame_KeepsEntry(s, page_id, delete_frame) ==
  [s EXCEPT !.replacer = Remove(@, delete_frame),
            !.free_list = Append(@, delete_frame),
            !.pages[delete_frame] = FreshPage]

\* The reset and release of DeletePage lines 182-190.
FreeFrame(s, page_id, delete_frame) ==
  LET pt == s.page_table IN
  [s EXCEPT !.replacer = Remove(@, delete_frame),
            !.page_table = [p \in (DOMAIN pt) \ {page_id} |-> pt[p]],
            !.free_list = Append(@, delete_frame),
            !.pages[delete_frame] = FreshPage]

\* DeletePage without its pin_count > 0 test.
DeletePage_NoPinCheck(s, t, page_id) ==
  LET s1 == Lock(s, t) IN
  IF s1.hung THEN [s |-> s1, ok |-> FALSE]
  ELSE IF page_id \notin DOMAIN s1.page_table THEN [s |-> Unlock(s1), ok |-> TRUE]
  ELSE [s |-> Unlock(FreeFrame(s1, page_id, s1.page_table[page_id])), ok |-> TRUE]

\* DeletePage(page_id), called by thread t
DeletePage(s, t, page_id) ==
  LET s1 == Lock(s, t) IN
  IF s1.hung THEN [s |-> s1, ok |-> FALSE]
  ELSE IF page_id \notin DOMAIN s1.page_table THEN [s |-> Unlock(s1), ok |-> TRUE]
  ELSE LET delete_frame == s1.page_table[page_id] IN
    IF s1.pages[delete_frame].pin_count > 0 THEN [s |-> Unlock(s1), ok |-> FALSE]
    ELSE [s |-> Unlock(FreeFrame(s1, page_id, delete_frame)), ok |-> TRUE]

\* ---- the state machine ----
\* The counters stay inside the model's bounds.
WithinBounds(s) ==
  /\ s.next_page_id <= MaxPageId
  /\ \A f \in Frames : s.pages[f].pin_count <= MaxPin
  /\ s.latch.count <= MaxLatchCount

\* A thread can enter an operation: it is not stuck, and no other thread holds
\* the latch (a holder between calls never releases it).
CanCall(t) == pc[t] = "idle" /\ latch_.owner \in {NoThread, t}

\* Install the manager record s as the next state, thread t having run.
Install(s, t) ==
  /\ WithinBounds(s)
  /\ pages_' = s.pages
  /\ page_table_' = s.page_table
  /\ free_list_' = s.free_list
  /\ next_page_id_' = s.next_page_id
  /\ replacer_' = s.replacer
  /\ disk' = s.disk
  /\ latch_' = s.latch
  /\ pc' = [pc EXCEPT ![t] = IF s.hung THEN "hung" ELSE "idle"]
  /\ relock' = relock
  /\ new_page_id' = new_page_id

Init ==
  /\ pages_ = [f \in Frames |-> FreshPage]
  /\ page_table_ = <<>>
  /\ free_list_ = [i \in 1 .. PoolSize |-> i - 1]
  /\ next_page_id_ = 0
  /\ replacer_ = [evictable |-> {}, history |-> [f \in Frames |-> <<>>],
                  current_timestamp |-> 0]
  /\ disk = [p \in PageIds |-> 0]
  /\ latch_ = [owner |-> NoThread, count |-> 0]
  /\ relock \in {"deadlock", "recursive"}
  /\ pc = [t \in Threads |-> "idle"]
  /\ new_page_id = [t \in Threads |-> INVALID_PAGE_ID]

DoNewPage(t) ==
  /\ CanCall(t)
  /\ \E victim \in EvictChoices(replacer_) :
       Install(NewPage(Manager, t, victim).s, t)

DoFetchPage(t, page_id) ==
  /\ CanCall(t)
  /\ \E victim \in EvictChoices(replacer_) :
       Install(FetchPage(Manager, t, page_id, victim).s, t)

\* The caller of UnpinPage(page_id, true) has written the bytes of the frame it
\* holds (that is what is_dirty reports); v is what it wrote.
CallerWrote(s, page_id, is_dirty, v) ==
  IF is_dirty /\ page_id \in DOMAIN s.page_table
     /\ s.pages[s.page_table[page_id]].pin_count > 0
  THEN [s EXCEPT !.pages[s.page_table[page_id]].data = v]
  ELSE s

DoUnpinPage(t, page_id, is_dirty) ==
  /\ CanCall(t)
  /\ \E v \in 1 .. MaxData :
       Install(UnpinPage(CallerWrote(Manager, page_id, is_dirty, v), t, page_id, is_dirty).s, t)

DoFlushPage(t, page_id) ==
  /\ CanCall(t)
  /\ Install(FlushPage(Manager, t, page_id).s, t)

DoFlushAllPages(t) ==
  /\ CanCall(t)
  /\ Install(FlushAllPages(Manager, t), t)

DoDeletePage(t, page_id) ==
  /\ CanCall(t)
  /\ Install(DeletePage(Manager, t, page_id).s, t)

Next ==
  \/ \E t \in Threads : DoNewPage(t)
  \/ \E t \in Threads, p \in PageIds : DoFetchPage(t, p)
  \/ \E t \in Threads, p \in PageIds, d \in BOOLEAN : DoUnpinPage(t, p, d)
  \/ \E t \in Threads, p \in PageIds : DoFlushPage(t, p)
  \/ \E t \in Threads : DoFlushAllPages(t)
  \/ \E t \in Threads, p \in PageIds : DoDeletePage(t, p)

Spec == Init /\ [][Next]_vars


\* ---- src/buffer/buffer_pool_manager.cpp: NewPage alone ----
\* This file implements NewPage and leaves the other operations as stubs that
\* return nullptr or false.  Its NewPage calls AllocatePage before it takes the
\* latch, so the allocation is a step of its own.
SkelFlushPage(s, page_id) == [s |-> s, ok |-> FALSE]

\* NewPage from latch_.lock() on, with the id AllocatePage returned.
SkelNewPage(s, t, id, victim) ==
  LET s1 == Lock(s, t) IN
  IF s1.free_list # <<>>
  THEN LET free_frame == Head(s1.free_list) IN
    [s |-> Unlock([s1 EXCEPT !.free_list = Tail(@),
                             !.pages[free_frame].page_id = id,
                             !.page_table = Put(@, id, free_frame),
                             !.replacer = SetEvictable(@, free_frame, FALSE)]),
     frame |-> free_frame]
  ELSE IF victim = nullptr THEN [s |-> Unlock(s1), frame |-> nullptr]
  ELSE LET s2 == [s1 EXCEPT !.replacer = Evicted(@, victim)] IN
    IF s2.pages[victim].is_dirty /\ ~SkelFlushPage(s2, s2.pages[victim].page_id).ok
    THEN [s |-> Unlock(s2), frame |-> nullptr]
    ELSE [s |-> Unlock([s2 EXCEPT
                          !.pages[victim] = [FreshPage EXCEPT !.pin_count = 1, !.page_id = id],
                          !.page_table = Put(@, id, victim),
                          !.replacer = SetEvictable(@, victim, FALSE)]),
          frame |-> victim]

\* AllocatePage: next_page_id_++, called before the latch is taken.
SkelAllocatePage(t) ==
  /\ pc[t] = "idle"
  /\ next_page_id_ < MaxPageId
  /\ new_page_id' = [new_page_id EXCEPT ![t] = next_page_id_]
  /\ next_page_id_' = next_page_id_ + 1
  /\ pc' = [pc EXCEPT ![t] = "lock"]
  /\ UNCHANGED <<pages_, page_table_, free_list_, replacer_, disk, latch_, relock>>

SkelDoNewPage(t) ==
  /\ pc[t] = "lock"
  /\ latch_.owner = NoThread
  /\ \E victim \in EvictChoices(replacer_) :
       LET r == SkelNewPage(Manager, t, new_page_id[t], victim) IN
       /\ pages_' = r.s.pages
       /\ page_table_' = r.s.page_table
       /\ free_list_' = r.s.free_list
       /\ replacer_' = r.s.replacer
       /\ latch_' = r.s.latch
  /\ pc' = [pc EXCEPT ![t] = "idle"]
  /\ new_page_id' = [new_page_id EXCEPT ![t] = INVALID_PAGE_ID]
  /\ UNCHANGED <<next_page_id_, disk, relock>>

\* FetchPage, UnpinPage, FlushPage, FlushAllPages, DeletePage: "TODO" stubs that
\* return nullptr or false (FlushAllPages: nothing) and touch no field.
SkelStub(t) ==
  /\ pc[t] = "idle"
  /\ UNCHANGED vars

\* The caller writes the bytes of a page NewPage returned to it.
SkelCallerWrote(t, f, v) ==
  /\ pc[t] = "idle"
  /\ pages_[f].page_id # INVALID_PAGE_ID
  /\ pages_' = [pages_ EXCEPT ![f].data = v]
  /\ UNCHANGED <<page_table_, free_list_, next_page_id_, replacer_, disk, latch_, relock,
                 pc, new_page_id>>

SkelNext ==
  \/ \E t \in Threads : SkelAllocatePage(t)
  \/ \E t \in Threads, f \in Frames, v \in Data : SkelCallerWrote(t, f, v)
  \/ \E t \in Threads : SkelDoNewPage(t)
  \/ \E t \in Threads : SkelStub(t)

SpecSkel == Init /\ [][SkelNext]_vars

\* ---- properties ----
Idle == \A t \in Threads : pc[t] = "idle"
KeysOf(f) == {p \in DOMAIN page_table_ : page_table_[p] = f}

\* A page is resident when a frame is bound to it.
Resident(p) == \E f \in Frames : pages_[f].page_id = p
FrameOf(p) == CHOOSE f \in Frames : pages_[f].page_id = p

\* C1: the page table is a bijection between the resident page ids and the
\* bound frames: a frame with a bound page id has exactly one entry, an entry
\* maps its key to a frame bound to that key, and no two keys share a frame.
C1_PageTableBijection ==
  /\ \A f \in Frames : pages_[f].page_id # INVALID_PAGE_ID => Cardinality(KeysOf(f)) = 1
  /\ \A p \in DOMAIN page_table_ : pages_[page_table_[p]].page_id = p
  /\ \A p, q \in DOMAIN page_table_ : p # q => page_table_[p] # page_table_[q]

\* C2: no frame with pin_count > 0 is in the replacer's evictable set.
C2_PinnedNotEvictable ==
  \A f \in replacer_.evictable : pages_[f].pin_count = 0

\* C3: a frame FetchPage(p) returns is bound to p and is p's page-table entry;
\* on a miss its pin_count is 1 and the call allocates no page id.
C3_FetchReturnsRequestedPage ==
  \A t \in Threads, p \in PageIds, victim \in EvictChoices(replacer_) :
    CanCall(t) =>
      LET r == FetchPage(Manager, t, p, victim) IN
      r.frame # nullptr =>
        /\ r.s.pages[r.frame].page_id = p
        /\ p \in DOMAIN r.s.page_table
        /\ r.s.page_table[p] = r.frame
        /\ p \notin DOMAIN page_table_ =>
             /\ r.s.pages[r.frame].pin_count = 1
             /\ r.s.next_page_id = next_page_id_

\* C4: every call returns and leaves the latch released: no thread is stuck
\* inside an operation and, between calls, nobody owns the latch.
C4_CallsReturnLatchReleased ==
  /\ \A t \in Threads : pc[t] = "idle"
  /\ latch_.owner = NoThread

\* C5: NewPage that evicts a dirty frame writes the frame's bytes to disk under
\* the page id the frame was bound to, and then succeeds with that frame.
C5_DirtyVictimFlushed ==
  \A t \in Threads, victim \in EvictChoices(replacer_) :
    (CanCall(t) /\ free_list_ = <<>> /\ victim # nullptr /\ pages_[victim].is_dirty) =>
      LET r == NewPage(Manager, t, victim) IN
      /\ ~r.s.hung
      /\ r.frame = victim
      /\ r.s.disk[pages_[victim].page_id] = pages_[victim].data

\* C6: after a successful NewPage the returned frame is bound to the new page
\* id with pin_count 1 and a clear dirty flag, the page table maps the new id
\* to it, and it is not evictable (NewPage of src/buffer/buffer_pool_manager.cpp,
\* run by a thread that has allocated its id and is about to take the latch).
C6_NewPageBinding ==
  \A t \in Threads, victim \in EvictChoices(replacer_) :
    (pc[t] = "lock" /\ latch_.owner = NoThread) =>
      LET r == SkelNewPage(Manager, t, new_page_id[t], victim) IN
      r.frame # nullptr =>
        /\ r.s.pages[r.frame].page_id = new_page_id[t]
        /\ r.s.pages[r.frame].pin_count = 1
        /\ ~r.s.pages[r.frame].is_dirty
        /\ new_page_id[t] \in DOMAIN r.s.page_table
        /\ r.s.page_table[new_page_id[t]] = r.frame
        /\ r.frame \notin r.s.replacer.evictable

\* C7: NewPage returns nullptr exactly when the free list is empty and no frame
\* is evictable; in every other state it returns a frame; and it returns
\* nullptr when every frame is bound and pinned.
C7_BusyExactlyWhenNoFrame ==
  \A t \in Threads, victim \in EvictChoices(replacer_) :
    CanCall(t) =>
      LET r == NewPage(Manager, t, victim)
          none == free_list_ = <<>> /\ replacer_.evictable = {}
          full == \A f \in Frames :
                    pages_[f].page_id # INVALID_PAGE_ID /\ pages_[f].pin_count > 0
      IN /\ ~r.s.hung
         /\ (r.frame = nullptr) <=> none
         /\ full => r.frame = nullptr

\* UnpinPage of a page that is not resident, or whose pin_count is zero,
\* returns false and changes nothing.
UnpinRefused ==
  \A t \in Threads, p \in PageIds, d \in BOOLEAN :
    (CanCall(t) /\ (~Resident(p) \/ pages_[FrameOf(p)].pin_count = 0)) =>
      LET r == UnpinPage(Manager, t, p, d) IN ~r.ok /\ r.s = Manager

PinCountNonNegative == \A f \in Frames : pages_[f].pin_count >= 0

\* C8: UnpinPage returns false and changes nothing when the page is not
\* resident or its pin_count is zero, pin_count is never negative, and the
\* UnpinPage that follows, on the same page, the one that released its last
\* pin returns false and changes nothing.
C8_UnpinAtZeroFalse ==
  /\ UnpinRefused
  /\ PinCountNonNegative
  /\ \A t \in Threads, p \in PageIds, d1, d2 \in BOOLEAN :
       (CanCall(t) /\ Resident(p)) =>
         LET first == UnpinPage(Manager, t, p, d1) IN
         (first.ok /\ first.s.pages[FrameOf(p)].pin_count = 0) =>
           LET second == UnpinPage(first.s, t, p, d2) IN
           ~second.ok /\ second.s = first.s

\* C9: DeletePage of a page id that is not resident returns true and changes
\* nothing.
C9_DeleteNonResident ==
  \A t \in Threads, p \in PageIds :
    (CanCall(t) /\ ~Resident(p)) =>
      LET r == DeletePage(Manager, t, p) IN r.ok /\ r.s = Manager

\* C10: DeletePage of a resident page whose frame is pinned returns false and
\* changes nothing; and no DeletePage, whatever its page id, resets a frame
\* with pin_count > 0 or puts it on the free list.
C10_DeletePinned ==
  \A t \in Threads, p \in PageIds :
    CanCall(t) =>
      LET r == DeletePage(Manager, t, p) IN
      /\ (p \in DOMAIN page_table_ /\ pages_[page_table_[p]].pin_count > 0) =>
           ~r.ok /\ r.s = Manager
      /\ \A f \in Frames : pages_[f].pin_count > 0 =>
           /\ r.s.pages[f] = pages_[f]
           /\ r.s.free_list \in {free_list_} \cup {Append(free_list_, g) : g \in Frames \ {f}}

\* C10 witness: a resident page pinned by two holders, reached through a stale
\* page-table entry as well, whose DeletePage returns false.
C10_Witness ==
  \E t \in Threads, p, q \in DOMAIN page_table_ :
    /\ CanCall(t)
    /\ p # q /\ page_table_[p] = page_table_[q]
    /\ pages_[page_table_[p]].pin_count = 2
    /\ ~DeletePage(Manager, t, p).ok
    /\ ~DeletePage(Manager, t, q).ok

\* C11: FlushPage(p) of a resident page writes the frame's bytes to disk under
\* p whatever the pin_count, clears the dirty flag, returns true and changes
\* nothing else; of a page that is not resident it returns false and changes
\* nothing, the disk included.
C11_FlushPage ==
  \A t \in Threads, p \in PageIds :
    CanCall(t) =>
      LET r == FlushPage(Manager, t, p) IN
      IF Resident(p)
      THEN /\ r.ok
           /\ r.s = [Manager EXCEPT !.disk[p] = pages_[FrameOf(p)].data,
                                    !.pages[FrameOf(p)].is_dirty = FALSE]
      ELSE ~r.ok /\ r.s = Manager

\* C12: FlushAllPages returns, having written every resident page to disk
\* under its own page id and cleared its dirty flag; it writes no other block
\* (none for a frame whose page id is INVALID) and changes nothing else.
C12_FlushAllPages ==
  \A t \in Threads :
    CanCall(t) =>
      LET s == FlushAllPages(Manager, t) IN
      /\ ~s.hung
      /\ s.latch = latch_
      /\ \A f \in Frames : pages_[f].page_id # INVALID_PAGE_ID =>
           /\ s.disk[pages_[f].page_id] = pages_[f].data
           /\ ~s.pages[f].is_dirty
      /\ \A p \in PageIds : ~Resident(p) => s.disk[p] = disk[p]
      /\ \A f \in Frames :
           s.pages[f] = IF pages_[f].page_id = INVALID_PAGE_ID THEN pages_[f]
                        ELSE [pages_[f] EXCEPT !.is_dirty = FALSE]
      /\ s.page_table = page_table_ /\ s.free_list = free_list_
      /\ s.replacer = replacer_

C14_AccessesRecorded ==
  \A t \in Threads, victim \in EvictChoices(replacer_) :
    CanCall(t) =>
      /\ LET r == NewPage(Manager, t, victim) IN
         r.frame # nullptr =>
           /\ r.s.replacer.current_timestamp = replacer_.current_timestamp + 1
           /\ r.s.replacer.history[r.frame] # <<>>
      /\ \A p \in PageIds :
           LET r == FetchPage(Manager, t, p, victim) IN
           r.frame # nullptr =>
             /\ r.s.replacer.current_timestamp = replacer_.current_timestamp + 1
             /\ r.s.replacer.history[r.frame] # <<>>

\* The acquisition took the front of the free list and nothing else: frame is
\* the old front, the free list lost exactly it, no other frame changed and
\* the evictable set is what it was.
TookFreeFrame(s, frame) ==
  /\ ~s.hung
  /\ frame = Head(free_list_)
  /\ s.free_list = Tail(free_list_)
  /\ \A f \in Frames \ {frame} : s.pages[f] = pages_[f]
  /\ s.replacer.evictable = replacer_.evictable

\* C15: whenever the free list is not empty, NewPage and a FetchPage miss take
\* the frame at the front of the free list and evict nothing: no resident page
\* loses its frame and the evictable set is unchanged.
C15_FreeListFirst ==
  \A t \in Threads, victim \in EvictChoices(replacer_) :
    (CanCall(t) /\ free_list_ # <<>>) =>
      /\ LET r == NewPage(Manager, t, victim) IN TookFreeFrame(r.s, r.frame)
      /\ \A p \in PageIds : ~Resident(p) =>
           LET r == FetchPage(Manager, t, p, victim) IN TookFreeFrame(r.s, r.frame)

\* C16: each frame occurs at most once in the free list, and a frame in the
\* free list is bound to no page, has pin_count 0 and is the target of no
\* page-table entry.
C16_FreeListWellFormed ==
  /\ \A i, j \in 1 .. Len(free_list_) : i # j => free_list_[i] # free_list_[j]
  /\ \A i \in 1 .. Len(free_list_) :
       /\ pages_[free_list_[i]].page_id = INVALID_PAGE_ID
       /\ pages_[free_list_[i]].pin_count = 0
       /\ KeysOf(free_list_[i]) = {}

\* C17: DeletePage of a resident page with pin_count 0 returns true; after
\* it the page id has no page-table entry, the frame is neither evictable nor
\* tracked by the replacer, its metadata is reset, it is at the back of the
\* free list, and no other frame, entry or disk block has changed.
C17_DeleteUnpinned ==
  \A t \in Threads, p \in PageIds :
    (CanCall(t) /\ Resident(p) /\ pages_[FrameOf(p)].pin_count = 0) =>
      LET r == DeletePage(Manager, t, p)
          f == FrameOf(p)
      IN /\ r.ok
         /\ p \notin DOMAIN r.s.page_table
         /\ f \notin r.s.replacer.evictable
         /\ r.s.replacer.history[f] = <<>>
         /\ r.s.pages[f] = FreshPage
         /\ r.s.free_list = Append(free_list_, f)
         /\ \A g \in Frames \ {f} :
              /\ r.s.pages[g] = pages_[g]
              /\ (g \in r.s.replacer.evictable) = (g \in replacer_.evictable)
         /\ \A q \in DOMAIN page_table_ \ {p} :
              q \in DOMAIN r.s.page_table /\ r.s.page_table[q] = page_table_[q]
         /\ r.s.disk = disk
         /\ r.s.next_page_id = next_page_id_

\* C17 witness: an unpinned, evictable resident page next to a pinned one;
\* DeletePage of it returns true and frees its frame.
C17_Witness ==
  \E t \in Threads, p, q \in PageIds :
    /\ CanCall(t)
    /\ Resident(p) /\ Resident(q) /\ p # q
    /\ pages_[FrameOf(p)].pin_count = 0
    /\ FrameOf(p) \in replacer_.evictable
    /\ pages_[FrameOf(p)].is_dirty
    /\ pages_[FrameOf(q)].pin_count > 0
    /\ DeletePage(Manager, t, p).ok
    /\ DeletePage(Manager, t, p).s.free_list = <<FrameOf(p)>>

\* Frame f still holds page p in s, and p is still dirty there.
StaysDirty(s, f, p) == s.pages[f].page_id = p => s.pages[f].is_dirty

\* C18: UnpinPage(p, false) changes no frame's dirty flag; a successful
\* UnpinPage(p, true) sets the dirty flag of p's frame; and a resident page
\* that is dirty stays dirty through every call that is not a flush of that
\* page, as long as its frame holds it (until its eviction or deletion).
C18_DirtySticky ==
  \A t \in Threads :
    CanCall(t) =>
      /\ \A p \in PageIds, f \in Frames :
           UnpinPage(Manager, t, p, FALSE).s.pages[f].is_dirty = pages_[f].is_dirty
      /\ \A p \in PageIds :
           LET r == UnpinPage(Manager, t, p, TRUE) IN
           (r.ok /\ Resident(p)) => r.s.pages[FrameOf(p)].is_dirty
      /\ \A p \in PageIds :
           (Resident(p) /\ pages_[FrameOf(p)].is_dirty) =>
             LET f == FrameOf(p) IN
             /\ \A q \in PageIds, d \in BOOLEAN :
                  StaysDirty(UnpinPage(Manager, t, q, d).s, f, p)
             /\ \A q \in PageIds \ {p} :
                  /\ StaysDirty(FlushPage(Manager, t, q).s, f, p)
                  /\ StaysDirty(DeletePage(Manager, t, q).s, f, p)
             /\ \A q \in PageIds, victim \in EvictChoices(replacer_) :
                  /\ StaysDirty(FetchPage(Manager, t, q, victim).s, f, p)
                  /\ StaysDirty(NewPage(Manager, t, victim).s, f, p)

\* C19: a successful UnpinPage decrements the pin_count of the page's frame
\* by exactly 1 and changes no other pin_count; it marks the frame evictable
\* when the result is 0, and while the result is above 0 the frame's
\* evictability is what it was; no other frame's evictability changes.
C19_UnpinDecrements ==
  \A t \in Threads, p \in PageIds, d \in BOOLEAN :
    CanCall(t) =>
      LET r == UnpinPage(Manager, t, p, d) IN
      r.ok =>
        LET f == page_table_[p] IN
        /\ r.s.pages[f].pin_count = pages_[f].pin_count - 1
        /\ r.s.pages[f].pin_count = 0 => f \in r.s.replacer.evictable
        /\ r.s.pages[f].pin_count > 0 =>
             (f \in r.s.replacer.evictable) = (f \in replacer_.evictable)
        /\ \A g \in Frames \ {f} :
             /\ r.s.pages[g].pin_count = pages_[g].pin_count
             /\ (g \in r.s.replacer.evictable) = (g \in replacer_.evictable)

\* C19 witness: a resident page with two holders whose frame is not evictable:
\* the first UnpinPage leaves it not evictable, the second makes it evictable.
C19_Witness ==
  \E t \in Threads, p \in PageIds :
    /\ CanCall(t)
    /\ Resident(p)
    /\ pages_[FrameOf(p)].pin_count = 2
    /\ FrameOf(p) \notin replacer_.evictable
    /\ LET first == UnpinPage(Manager, t, p, FALSE)
           second == UnpinPage(first.s, t, p, FALSE)
       IN /\ first.ok /\ FrameOf(p) \notin first.s.replacer.evictable
          /\ second.ok /\ FrameOf(p) \in second.s.replacer.evictable

\* C20: FetchPage of a resident page returns the page's frame with its
\* pin_count raised by exactly 1, records exactly one access for that frame
\* in the replacer, and changes neither the page table, the free list, the
\* dirty flag nor any other frame.
C20_FetchResident ==
  \A t \in Threads, p \in PageIds, victim \in EvictChoices(replacer_) :
    (CanCall(t) /\ Resident(p)) =>
      LET r == FetchPage(Manager, t, p, victim)
          f == FrameOf(p)
      IN /\ r.frame = f
         /\ r.s.pages = [pages_ EXCEPT ![f].pin_count = @ + 1]
         /\ r.s.replacer.history = RecordAccess(replacer_, f).history
         /\ r.s.page_table = page_table_
         /\ r.s.free_list = free_list_

====
